---- MODULE Spec2Model ----
(***************************************************************************)
(* A model of scratch.py: two TIGERweb layers are fetched by a two-worker  *)
(* thread pool into the shared mapping geo_data, concatenated, ranked by   *)
(* land area within each state, and the top ranks inside the plotted       *)
(* extent are drawn over a choropleth of block-group income.               *)
(*                                                                         *)
(* The script is linear; each phase is checked under a specification of    *)
(* its own whose Init draws the phase's inputs from bounded sets:          *)
(*   Spec          lines 11-72   fetch, orchestration, pd.concat           *)
(*   SpecDecile    lines 76-78   within-state quantile rank                *)
(*   SpecSentinel  lines 101-102 sentinel cleanup of the income table      *)
(*   SpecRender    lines 104-172 extent, centroid filter, markers, labels  *)
(*                                                                         *)
(* A value that may be missing (NaN / None) is modelled as a set: {} is    *)
(* the missing value and {v} is the value v.                               *)
(***************************************************************************)
EXTENDS Integers, Sequences, FiniteSets, TLC

VARIABLES
    server,             \* layer id -> what the TIGERweb server answers (fixed for a run)
    opc,                \* main thread: the statement it is at
    queue,              \* the pool's work queue (FIFO of layer ids)
    wpc,                \* layer id -> position of the worker call get_tiger_polygons(layer)
    caught,             \* layer id -> the except clause that handled the call's exception
    reported,           \* layer id -> the count printed by line 39 ({} before)
    geo_data,           \* the defaultdict, as its items in insertion order
    pending,            \* the exception in flight in the main thread ({} if none)
    masterFailed,       \* line 70 has printed "A master fetching task failed"
    completed,          \* layer ids in the order their futures completed
    stacked,            \* the concatenated feature table
    response,           \* the income table as to_gpd returns it (line 101)
    gdf,                \* the income table
    axlim,              \* the axes' limits <<xmin, xmax, ymin, ymax>>, in 1/1000 degree
    extent,             \* <<xmin, xmax, ymin, ymax>> as read at lines 133-134
    visible_centroids,  \* the filtered rows, each with its index label
    markers,            \* the points drawn by ax.scatter
    labels              \* the texts drawn by ax.text

vars == << server, opc, queue, wpc, caught, reported, geo_data, pending,
           masterFailed, completed, stacked, response, gdf, axlim, extent,
           visible_centroids, markers, labels >>

fetchVars == << server, queue, wpc, caught, reported, geo_data, pending,
                masterFailed, completed >>
incomeVars == << response, gdf >>
renderVars == << axlim, extent, visible_centroids, markers, labels >>

----------------------------------------------------------------------------
(* Helpers on sequences.                                                   *)

Range(s) == { s[i] : i \in 1..Len(s) }

RECURSIVE SumLen(_)
SumLen(tables) ==
    IF tables = << >> THEN 0 ELSE Len(Head(tables)) + SumLen(Tail(tables))

\* Number of occurrences of row r in table t.
Count(t, r) == Cardinality({ i \in 1..Len(t) : t[i] = r })

----------------------------------------------------------------------------
(* The two layers and the server's answers.                                *)

PLACES == 28
COUNTYSUBS == 22
Layers == { PLACES, COUNTYSUBS }

MaxWorkers == 2

\* Longest feature list a server answer holds in the model.
MaxFeatures == 2

\* A feature as from_features returns it: the outFields of the request.
Feature(state, name, area, lat, lon) ==
    [ STATE |-> state, NAME |-> name, AREALAND |-> area,
      CENTLAT |-> lat, CENTLON |-> lon ]

FeaturePool ==
    { Feature(8, "Timnath", 5, 40529, -104985),
      Feature(8, "Berthoud town", 9, 40308, -105081),
      Feature(11, "Washington", 7, 38904, -77016) }

RECURSIVE SeqsUpTo(_, _)
SeqsUpTo(S, n) ==
    IF n = 0 THEN { << >> }
    ELSE LET shorter == SeqsUpTo(S, n - 1)
         IN  shorter \cup { Append(s, x) : s \in { t \in shorter : Len(t) = n - 1 }, x \in S }

FeatureTables == SeqsUpTo(FeaturePool, MaxFeatures)

(* What the server does with one request:                                  *)
(*   ok           200 and a GeoJSON FeatureCollection with these features  *)
(*   conn_error   the connection fails: requests.get raises                *)
(*   http_error   a non-2xx status: raise_for_status raises                *)
(*   bad_json     200, the body is not JSON: response.json() raises        *)
(*   no_features  200, a JSON object without "features" (ArcGIS's          *)
(*                {"error": ...} body): the subscript raises KeyError      *)
(*   not_object   200, JSON that is no object holding a feature list (an   *)
(*                array, null, "features": null): the subscript or         *)
(*                from_features raises TypeError                           *)
(*   hang         the server never answers                                 *)
FailureKinds ==
    { "conn_error", "http_error", "bad_json", "no_features", "not_object", "hang" }

Responses ==
    { [ kind |-> "ok", features |-> t ] : t \in FeatureTables }
    \cup { [ kind |-> k, features |-> << >> ] : k \in FailureKinds }

\* The exception a server answer makes the call raise.
ExcOf(kind) ==
    CASE kind = "conn_error"  -> "ConnectionError"
      [] kind = "http_error"  -> "HTTPError"
      [] kind = "hang"        -> "Timeout"
      [] kind = "bad_json"    -> "JSONDecodeError"
      [] kind = "no_features" -> "KeyError"
      [] kind = "not_object"  -> "TypeError"
      [] OTHER                -> "none"

\* requests.exceptions.RequestException and its subclasses.
IsRequestException(e) ==
    e \in { "ConnectionError", "HTTPError", "Timeout", "JSONDecodeError" }

\* KeyError, ValueError and their subclasses (requests' JSONDecodeError is both
\* a RequestException and a ValueError; the first matching clause takes it).
IsKeyOrValueError(e) == e \in { "KeyError", "ValueError", "JSONDecodeError" }

\* The except clause of lines 41-45 that takes exception e.
HandlerOnlyParse(e) ==
    IF IsKeyOrValueError(e) THEN "KeyError_ValueError" ELSE "uncaught"

Handler(e) ==
    IF IsRequestException(e) THEN "RequestException"
    ELSE IF IsKeyOrValueError(e) THEN "KeyError_ValueError"
    ELSE "uncaught"

\* The keyword arguments of the requests.get call of line 36. The dict params
\* holds a "timeout" entry (line 32), which travels in the query string.
RequestKwargs == { "params" }
ParamsKeys ==
    { "where", "outFields", "outSR", "f", "returnGeometry", "returnCountOnly",
      "resultOffset", "resultRecordCount", "timeout" }

----------------------------------------------------------------------------
(* geo_data = defaultdict(gpd.GeoDataFrame): items <<key, table>> in       *)
(* insertion order.                                                        *)

Keys(d) == [ i \in 1..Len(d) |-> d[i][1] ]
Values(d) == [ i \in 1..Len(d) |-> d[i][2] ]
HasKey(d, k) == \E i \in 1..Len(d) : d[i][1] = k
Lookup(d, k) == d[CHOOSE i \in 1..Len(d) : d[i][1] = k][2]

\* d[k] = v
SetItem(d, k, v) ==
    IF HasKey(d, k)
    THEN [ i \in 1..Len(d) |-> IF d[i][1] = k THEN << k, v >> ELSE d[i] ]
    ELSE Append(d, << k, v >>)

\* Reading d[k]: a missing key is inserted with an empty GeoDataFrame.
Touch(d, k) == IF HasKey(d, k) THEN d ELSE Append(d, << k, << >> >>)

\* The key get_tiger_polygons(layer_id, ...) stores under.
StoreKeyShared(layer_id) == PLACES

StoreKey(layer_id) == layer_id

\* pd.concat(tables, ignore_index=True): the rows of each table in turn.
ConcatFirstOnly(tables) ==
    IF tables = << >> THEN << >> ELSE Head(tables)

RECURSIVE Concat(_)
Concat(tables) ==
    IF tables = << >> THEN << >> ELSE Head(tables) \o Concat(Tail(tables))

----------------------------------------------------------------------------
(* The worker call get_tiger_polygons(layer_id, ...), lines 35-45.         *)

Finished(l) == wpc[l] \in { "returned", "raised" }
Running(l) == wpc[l] \in { "get", "parse", "report" }

\* Leaving the try statement with exception e raised in the call for layer l.
Raise(l, e) ==
    /\ caught' = [ caught EXCEPT ![l] = Handler(e) ]
    /\ wpc' = [ wpc EXCEPT ![l] = IF Handler(e) = "uncaught" THEN "raised" ELSE "returned" ]
    /\ completed' = Append(completed, l)

\* A pool thread takes the next work item.
Start ==
    /\ queue # << >>
    /\ Cardinality({ l \in Layers : Running(l) }) < MaxWorkers
    /\ wpc' = [ wpc EXCEPT ![Head(queue)] = "get" ]
    /\ queue' = Tail(queue)
    /\ UNCHANGED << server, opc, caught, reported, geo_data, pending,
                    masterFailed, completed, stacked >>
    /\ UNCHANGED << incomeVars, renderVars >>

\* Lines 36-37: requests.get(API_URL, params=params); raise_for_status().
Get(l) ==
    /\ wpc[l] = "get"
    /\ server[l].kind = "hang" => "timeout" \in RequestKwargs
    /\ IF server[l].kind \in { "conn_error", "http_error", "hang" }
       THEN Raise(l, ExcOf(server[l].kind))
       ELSE /\ wpc' = [ wpc EXCEPT ![l] = "parse" ]
            /\ UNCHANGED << caught, completed >>
    /\ UNCHANGED << server, opc, queue, reported, geo_data, pending,
                    masterFailed, stacked >>
    /\ UNCHANGED << incomeVars, renderVars >>

\* Line 38: geo_data[layer_id] = GeoDataFrame.from_features(response.json()["features"]).
Parse(l) ==
    /\ wpc[l] = "parse"
    /\ IF server[l].kind = "ok"
       THEN /\ geo_data' = SetItem(geo_data, StoreKey(l), server[l].features)
            /\ wpc' = [ wpc EXCEPT ![l] = "report" ]
            /\ UNCHANGED << caught, completed >>
       ELSE /\ Raise(l, ExcOf(server[l].kind))
            /\ UNCHANGED geo_data
    /\ UNCHANGED << server, opc, queue, reported, pending, masterFailed, stacked >>
    /\ UNCHANGED << incomeVars, renderVars >>

\* Line 39: print(... len(geo_data[layer_id]) ...), and the call returns.
Report(l) ==
    /\ wpc[l] = "report"
    /\ geo_data' = Touch(geo_data, StoreKey(l))
    /\ reported' = [ reported EXCEPT ![l] = { Len(Lookup(geo_data', StoreKey(l))) } ]
    /\ wpc' = [ wpc EXCEPT ![l] = "returned" ]
    /\ completed' = Append(completed, l)
    /\ UNCHANGED << server, opc, queue, caught, pending, masterFailed, stacked >>
    /\ UNCHANGED << incomeVars, renderVars >>

----------------------------------------------------------------------------
(* The main thread, lines 48-72.                                           *)

\* executor.submit(get_tiger_polygons, layer, ...)
Submit(l, next) ==
    /\ wpc' = [ wpc EXCEPT ![l] = "queued" ]
    /\ queue' = Append(queue, l)
    /\ opc' = next
    /\ UNCHANGED << server, caught, reported, geo_data, pending, masterFailed,
                    completed, stacked >>
    /\ UNCHANGED << incomeVars, renderVars >>

\* Lines 51-53.
SubmitPlaces == opc = "submit_places" /\ Submit(PLACES, "submit_countysubs")

\* Lines 54-64.
SubmitCountysubs == opc = "submit_countysubs" /\ Submit(COUNTYSUBS, "result_places")

\* future.result(): waits for the call, then returns or re-raises its exception.
Result(l, next) ==
    /\ Finished(l)
    /\ IF wpc[l] = "raised"
       THEN /\ pending' = { ExcOf(server[l].kind) }
            /\ opc' = "exit_with"
       ELSE /\ opc' = next
            /\ UNCHANGED pending
    /\ UNCHANGED << server, queue, wpc, caught, reported, geo_data, masterFailed,
                    completed, stacked >>
    /\ UNCHANGED << incomeVars, renderVars >>

\* Line 66.
ResultPlaces == opc = "result_places" /\ Result(PLACES, "result_countysubs")

\* Line 67.
ResultCountysubs == opc = "result_countysubs" /\ Result(COUNTYSUBS, "exit_with")

\* ThreadPoolExecutor.__exit__ is shutdown(wait=True): it returns once every
\* submitted call has run to its end.
ShutdownNoWait == TRUE

ShutdownReturns == \A l \in Layers : wpc[l] # "unsubmitted" => Finished(l)

\* Leaving the with block of line 49, normally or with the exception in flight.
ExitWith ==
    /\ opc = "exit_with"
    /\ ShutdownReturns
    /\ opc' = IF pending = {} THEN "concat" ELSE "handler"
    /\ UNCHANGED << fetchVars, stacked >>
    /\ UNCHANGED << incomeVars, renderVars >>

\* Lines 69-70: except Exception as exc: print(...).
MasterHandler ==
    /\ opc = "handler"
    /\ masterFailed' = TRUE
    /\ pending' = {}
    /\ opc' = "concat"
    /\ UNCHANGED << server, queue, wpc, caught, reported, geo_data, completed, stacked >>
    /\ UNCHANGED << incomeVars, renderVars >>

\* Line 72: stacked = pd.concat(geo_data.values(), ignore_index=True). With no
\* object to concatenate pd.concat raises ValueError, which nothing catches.
ConcatStep ==
    /\ opc = "concat"
    /\ IF Values(geo_data) = << >>
       THEN /\ opc' = "fatal"
            /\ UNCHANGED stacked
       ELSE /\ stacked' = Concat(Values(geo_data))
            /\ opc' = "concatenated"
    /\ UNCHANGED fetchVars
    /\ UNCHANGED << incomeVars, renderVars >>

----------------------------------------------------------------------------
(* Lines 76-78: DECILE = groupby("STATE")["AREALAND"].transform(           *)
(*     lambda x: pd.qcut(x, 20, labels=False, duplicates="drop") + 1).     *)
(* Quantiles are pandas' linear interpolation, kept exact by carrying      *)
(* every bin edge and every value multiplied by Q.                         *)

Q == 20

\* The rows (as positions of table t) in the STATE group of row i.
Group(t, i) == { j \in 1..Len(t) : t[j].STATE = t[i].STATE }

\* The k-th smallest AREALAND (k from 1) among the rows G of t.
KthSmallest(t, G, k) ==
    CHOOSE v \in { t[j].AREALAND : j \in G } :
        /\ Cardinality({ j \in G : t[j].AREALAND < v }) < k
        /\ k <= Cardinality({ j \in G : t[j].AREALAND <= v })

\* Q times the k/Q quantile of the group's areas: Series.quantile, linear.
QuantileTimesQ(t, G, k) ==
    LET pos == (Cardinality(G) - 1) * k
        lo  == pos \div Q
        r   == pos % Q
        xlo == KthSmallest(t, G, lo + 1)
        xhi == IF r = 0 THEN xlo ELSE KthSmallest(t, G, lo + 2)
    IN  Q * xlo + r * (xhi - xlo)

\* The Q+1 bin edges with duplicates dropped (duplicates="drop").
BinEdges(t, G) == { QuantileTimesQ(t, G, k) : k \in 0..Q }

SetMin(S) == CHOOSE x \in S : \A y \in S : x <= y

(* _bins_to_cuts with right=True, include_lowest=True, labels=False: the   *)
(* code of value x is searchsorted(bins, x, side="left") - 1, with the     *)
(* lowest edge put in the first bin, and NaN where the position is 0 or    *)
(* len(bins).                                                              *)
QcutCode(t, G, x) ==
    LET bins == BinEdges(t, G)
        left == Cardinality({ b \in bins : b < Q * x })
        ids  == IF Q * x = SetMin(bins) THEN 1 ELSE left
    IN  IF ids = Cardinality(bins) \/ ids = 0 THEN {} ELSE { ids - 1 }

\* The DECILE of row i of table t: the qcut code plus one (NaN + 1 is NaN).
Decile(t, i) == { c + 1 : c \in QcutCode(t, Group(t, i), t[i].AREALAND) }

WithDecile(row, d) ==
    [ STATE |-> row.STATE, NAME |-> row.NAME, AREALAND |-> row.AREALAND,
      CENTLAT |-> row.CENTLAT, CENTLON |-> row.CENTLON, DECILE |-> d ]

AssignDecile ==
    /\ opc = "decile"
    /\ stacked' = [ i \in 1..Len(stacked) |-> WithDecile(stacked[i], Decile(stacked, i)) ]
    /\ opc' = "ranked"
    /\ UNCHANGED << fetchVars, incomeVars, renderVars >>

----------------------------------------------------------------------------
(* Lines 101-102: the income table and its sentinel cleanup.               *)

Sentinel == -666666666

IncomeRow(geoid, estimate, margin) ==
    [ GEO_ID |-> geoid, B19013_001E |-> estimate, B19013_001M |-> margin ]

\* Line 101: gdf = response.to_gpd(destring=True, join_strategy="inner").
ToGpd ==
    /\ opc = "to_gpd"
    /\ gdf' = response
    /\ opc' = "cleanup"
    /\ UNCHANGED << fetchVars, stacked, response, renderVars >>

\* The mask gdf["B19013_001E"] == -666666666 (a missing value equals nothing).
IsSentinelOrBelow(v) == \E x \in v : x <= Sentinel

IsSentinel(v) == v = { Sentinel }

\* Line 102: gdf.loc[mask, "B19013_001E"] = None.
Cleanup ==
    /\ opc = "cleanup"
    /\ gdf' = [ i \in 1..Len(gdf) |->
                  IF IsSentinel(gdf[i].B19013_001E)
                  THEN [ gdf[i] EXCEPT !.B19013_001E = {} ]
                  ELSE gdf[i] ]
    /\ opc' = "cleaned"
    /\ UNCHANGED << fetchVars, stacked, response, renderVars >>

----------------------------------------------------------------------------
(* Lines 104-172: the choropleth, the extent, the centroid filter, the     *)
(* markers and the labels. Coordinates are in 1/1000 degree.               *)

DecileThreshold == 19
YOffset == 15

\* A new axes' limits: (0.0, 1.0) on both axes.
DefaultLimits == << 0, 1000, 0, 1000 >>

\* Limits the choropleth of the three counties may leave on the axes.
XLims == { << -105100, -104900 >>, << -105050, -104900 >>, << -105200, -105100 >> }
YLims == { << 40300, 40600 >>, << 40400, 40500 >> }

\* Lines 104-131: gdf.plot(...) autoscales the axes to the drawn polygons.
Plot ==
    /\ opc = "plot"
    /\ \E xl \in XLims, yl \in YLims : axlim' = << xl[1], xl[2], yl[1], yl[2] >>
    /\ opc' = "get_lims"
    /\ UNCHANGED << fetchVars, stacked, incomeVars, extent, visible_centroids,
                    markers, labels >>

\* Lines 133-134: xmin, xmax = ax.get_xlim(); ymin, ymax = ax.get_ylim().
GetLims ==
    /\ opc = "get_lims"
    /\ extent' = axlim
    /\ opc' = "filter"
    /\ UNCHANGED << fetchVars, stacked, incomeVars, axlim, visible_centroids,
                    markers, labels >>

\* The mask of lines 137-141 for one row (a NaN DECILE compares False).
VisibleFrom18(row, ext) ==
    /\ row.CENTLON >= ext[1]
    /\ row.CENTLON <= ext[2]
    /\ row.CENTLAT >= ext[3]
    /\ row.CENTLAT <= ext[4]
    /\ \E d \in row.DECILE : d >= DecileThreshold - 1

Visible(row, ext) ==
    /\ row.CENTLON >= ext[1]
    /\ row.CENTLON <= ext[2]
    /\ row.CENTLAT >= ext[3]
    /\ row.CENTLAT <= ext[4]
    /\ \E d \in row.DECILE : d >= DecileThreshold

\* Boolean-mask indexing: the rows kept, in order, each under its index label
\* (0-based, from ignore_index=True).
RECURSIVE MaskRows(_, _, _)
MaskRows(t, ext, i) ==
    IF i > Len(t) THEN << >>
    ELSE ( IF Visible(t[i], ext) THEN << [ idx |-> i - 1, row |-> t[i] ] >> ELSE << >> )
         \o MaskRows(t, ext, i + 1)

\* Lines 136-142.
Filter ==
    /\ opc = "filter"
    /\ visible_centroids' = MaskRows(stacked, extent, 1)
    /\ opc' = "scatter"
    /\ UNCHANGED << fetchVars, stacked, incomeVars, axlim, extent, markers, labels >>

\* Lines 144-152: one marker per row of visible_centroids.
Scatter ==
    /\ opc = "scatter"
    /\ markers' = [ k \in 1..Len(visible_centroids) |->
                      [ idx |-> visible_centroids[k].idx,
                        x |-> visible_centroids[k].row.CENTLON,
                        y |-> visible_centroids[k].row.CENTLAT ] ]
    /\ opc' = "label"
    /\ UNCHANGED << fetchVars, stacked, incomeVars, axlim, extent,
                    visible_centroids, labels >>

Max(a, b) == IF a >= b THEN a ELSE b

\* Lines 157-172: ax.text for one row. The font size max(3, 9 * d^3 / 20^3) is
\* carried multiplied by 20^3.
TextOf(item) ==
    LET d == CHOOSE x \in item.row.DECILE : TRUE
    IN  [ idx |-> item.idx,
          x |-> item.row.CENTLON,
          y |-> item.row.CENTLAT + YOffset,
          s |-> item.row.NAME,
          fontsize8000 |-> Max(3 * 8000, 9 * d * d * d) ]

\* One iteration of the loop of line 156.
LabelRow ==
    /\ opc = "label"
    /\ Len(labels) < Len(visible_centroids)
    /\ labels' = Append(labels, TextOf(visible_centroids[Len(labels) + 1]))
    /\ UNCHANGED << fetchVars, opc, stacked, incomeVars, axlim, extent,
                    visible_centroids, markers >>

\* The loop of line 156 ends.
LabelEnd ==
    /\ opc = "label"
    /\ Len(labels) = Len(visible_centroids)
    /\ opc' = "labelled"
    /\ UNCHANGED << fetchVars, stacked, incomeVars, renderVars >>

----------------------------------------------------------------------------

NoIncome == /\ response = << >>
            /\ gdf = << >>

NoRender == /\ axlim = DefaultLimits
            /\ extent = << >>
            /\ visible_centroids = << >>
            /\ markers = << >>
            /\ labels = << >>

NoFetch == /\ server = [ l \in Layers |-> [ kind |-> "ok", features |-> << >> ] ]
           /\ queue = << >>
           /\ wpc = [ l \in Layers |-> "unsubmitted" ]
           /\ caught = [ l \in Layers |-> "none" ]
           /\ reported = [ l \in Layers |-> {} ]
           /\ geo_data = << >>
           /\ pending = {}
           /\ masterFailed = FALSE
           /\ completed = << >>

Init ==
    /\ server \in [ Layers -> Responses ]
    /\ opc = "submit_places"
    /\ queue = << >>
    /\ wpc = [ l \in Layers |-> "unsubmitted" ]
    /\ caught = [ l \in Layers |-> "none" ]
    /\ reported = [ l \in Layers |-> {} ]
    /\ geo_data = << >>
    /\ pending = {}
    /\ masterFailed = FALSE
    /\ completed = << >>
    /\ stacked = << >>
    /\ NoIncome
    /\ NoRender

Next ==
    \/ SubmitPlaces
    \/ SubmitCountysubs
    \/ Start
    \/ \E l \in Layers : Get(l)
    \/ \E l \in Layers : Parse(l)
    \/ \E l \in Layers : Report(l)
    \/ ResultPlaces
    \/ ResultCountysubs
    \/ ExitWith
    \/ MasterHandler
    \/ ConcatStep

Spec == Init /\ [][Next]_vars

----------------------------------------------------------------------------
(* Properties of the fetch phase, checked under Spec.                      *)

FetchEnded == opc \in { "concatenated", "fatal" }
TransportKinds == { "conn_error", "http_error" }
CaughtParseKinds == { "bad_json", "no_features" }
OkLayers == { l \in Layers : server[l].kind = "ok" }

\* Rows equal to r that the answers of the layers in L hold together.
RECURSIVE CountIn(_, _)
CountIn(L, r) ==
    IF L = {} THEN 0
    ELSE LET l == CHOOSE x \in L : TRUE
         IN  Count(server[l].features, r) + CountIn(L \ { l }, r)

(* C1. Failure isolation: when the county-subdivision fetch (22) fails in  *)
(* transport and the places fetch (28) succeeds, no call raises into its   *)
(* future, nothing reaches the handler of line 69, layer 22 never gets an  *)
(* entry, and once the workers are done the mapping holds layer 28 alone   *)
(* and the concatenated table is exactly layer 28's rows.                  *)
C1_FailureIsolation ==
    ( server[COUNTYSUBS].kind \in TransportKinds /\ server[PLACES].kind = "ok" ) =>
        /\ \A l \in Layers : wpc[l] # "raised"
        /\ pending = {} /\ ~masterFailed /\ opc \notin { "handler", "fatal" }
        /\ ~HasKey(geo_data, COUNTYSUBS)
        /\ opc \in { "concat", "concatenated" } => Keys(geo_data) = << PLACES >>
        /\ opc = "concatenated" => stacked = server[PLACES].features

C1_Witness ==
    /\ opc = "concatenated"
    /\ server[COUNTYSUBS].kind = "conn_error"
    /\ server[PLACES].kind = "ok"
    /\ completed = << COUNTYSUBS, PLACES >>
    /\ Len(stacked) = MaxFeatures

(* C2. A fetch failure is never fatal: whatever mix of success, transport  *)
(* failure and parse failure the two fetches end in, the run does not die  *)
(* on an uncaught error in the fetch phase or in pd.concat.                *)
C2_FetchFailureNeverFatal ==
    ( \A l \in Layers : server[l].kind \in { "ok" } \cup TransportKinds \cup CaughtParseKinds )
        => opc # "fatal"

(* C3. Every exception raised inside get_tiger_polygons is swallowed       *)
(* there: no future ends with an exception, future.result() re-raises      *)
(* nothing, and the handler of line 69 is not reached.                     *)
C3_FetcherErrorsSwallowed ==
    /\ \A l \in Layers : wpc[l] # "raised"
    /\ pending = {}
    /\ opc # "handler"
    /\ ~masterFailed

(* C7. Concatenation preserves rows: the concatenated table has as many    *)
(* rows as the tables of the mapping have together.                        *)
C7_ConcatPreservesRows ==
    opc = "concatenated" => Len(stacked) = SumLen(Values(geo_data))

C7_Witness ==
    /\ opc = "concatenated"
    /\ Len(geo_data) = 2
    /\ \A i \in 1..2 : Len(geo_data[i][2]) = MaxFeatures
    /\ Len(stacked) = 2 * MaxFeatures

(* C8. Completion order does not affect the result: each key of the        *)
(* mapping holds the answer of its own layer and of no other, and at the   *)
(* end the keys are the layers that succeeded and the concatenated table   *)
(* holds their rows, each as often as the answers hold it, whatever the    *)
(* interleaving was.                                                       *)
C8_OrderIndependent ==
    /\ \A i \in 1..Len(geo_data) :
          /\ geo_data[i][1] \in OkLayers
          /\ geo_data[i][2] = server[geo_data[i][1]].features
          /\ \A j \in 1..Len(geo_data) : geo_data[j][1] = geo_data[i][1] => j = i
    /\ FetchEnded => Range(Keys(geo_data)) = OkLayers
    /\ FetchEnded => ( opc = "fatal" <=> OkLayers = {} )
    /\ opc = "concatenated" =>
          \A r \in FeaturePool : Count(stacked, r) = CountIn(OkLayers, r)

C8_Witness ==
    /\ opc = "concatenated"
    /\ Keys(geo_data) = << COUNTYSUBS, PLACES >>
    /\ server[PLACES].features # server[COUNTYSUBS].features
    /\ stacked = server[COUNTYSUBS].features \o server[PLACES].features
    /\ Len(server[PLACES].features) > 0
    /\ Len(server[COUNTYSUBS].features) > 0

(* C9. The main thread blocks until both fetches are complete: line 72     *)
(* (and the handler before it) is reached only with both calls submitted   *)
(* and run to their end, also when the first future re-raises.             *)
C9_BlocksUntilBothComplete ==
    opc \in { "handler", "concat", "concatenated", "fatal" } =>
        /\ \A l \in Layers : Finished(l)
        /\ Len(completed) = 2
        /\ Range(completed) = Layers
        /\ queue = << >>

C9_Witness ==
    /\ opc = "concat"
    /\ masterFailed
    /\ wpc[PLACES] = "raised"
    /\ wpc[COUNTYSUBS] = "returned"
    /\ completed = << PLACES, COUNTYSUBS >>
    /\ HasKey(geo_data, COUNTYSUBS)

(* C10. Each request is bounded by a timeout, so the fetch phase always    *)
(* comes to its end: the run is never stuck before line 72 has run.        *)
C10_FetchPhaseTerminates == FetchEnded \/ ENABLED Next

----------------------------------------------------------------------------
(* The phases after the fetch, each from inputs drawn from bounded sets.   *)

\* Longest table the decile phase starts from.
MaxRanked == 3
\* Longest income table.
MaxIncome == 2
\* Longest feature table the render phase starts from.
MaxDrawn == 2

RankInputs ==
    { Feature(st, "x", a, 40400, -105000) : st \in { 8, 11 }, a \in { 3, 4, 7 } }

InitDecile ==
    /\ NoFetch
    /\ NoIncome
    /\ NoRender
    /\ opc = "decile"
    /\ stacked \in SeqsUpTo(RankInputs, MaxRanked)

NextDecile == AssignDecile

SpecDecile == InitDecile /\ [][NextDecile]_vars

IncomeInputs ==
    { IncomeRow("080690001001", e, m) :
        e \in { { Sentinel }, { Sentinel + 1 }, { Sentinel - 1 }, { 0 }, { 52000 }, {} },
        m \in { { Sentinel }, { 1000 } } }

InitSentinel ==
    /\ NoFetch
    /\ NoRender
    /\ stacked = << >>
    /\ opc = "to_gpd"
    /\ response \in SeqsUpTo(IncomeInputs, MaxIncome)
    /\ gdf = << >>

NextSentinel ==
    \/ ToGpd
    \/ Cleanup

SpecSentinel == InitSentinel /\ [][NextSentinel]_vars

DrawInputs ==
    { WithDecile(Feature(8, "Timnath", 5, lat, lon), d) :
        lat \in { 40300, 40500 }, lon \in { -105100, -105000 },
        d \in { {}, { 18 }, { 19 }, { 20 } } }

InitRender ==
    /\ NoFetch
    /\ NoIncome
    /\ NoRender
    /\ opc = "plot"
    /\ stacked \in SeqsUpTo(DrawInputs, MaxDrawn)

NextRender ==
    \/ Plot
    \/ GetLims
    \/ Filter
    \/ Scatter
    \/ LabelRow
    \/ LabelEnd

SpecRender == InitRender /\ [][NextRender]_vars

----------------------------------------------------------------------------
(* Properties of the later phases.                                         *)

(* C5. Decile assignment (under SpecDecile): every row's DECILE is an      *)
(* integer from 1 to 20, whatever the size of its state group, and within  *)
(* a state a row of larger land area has a rank at least that of a row of  *)
(* smaller land area.                                                      *)
C5_DecileInRangeAndMonotone ==
    opc = "ranked" =>
        \A i \in 1..Len(stacked) :
            /\ stacked[i].DECILE # {}
            /\ \A d \in stacked[i].DECILE : d \in 1..Q
            /\ \A j \in 1..Len(stacked) :
                  ( stacked[j].STATE = stacked[i].STATE
                    /\ stacked[j].AREALAND < stacked[i].AREALAND ) =>
                      \A di \in stacked[i].DECILE, dj \in stacked[j].DECILE : dj <= di

\* What does hold of lines 76-78: the rows of a state group with at least two
\* different land areas all get a rank from 1 to 20, monotone in the area.
DecileOnVariedGroups ==
    opc = "ranked" =>
        \A i \in 1..Len(stacked) :
            ( \E j \in 1..Len(stacked) :
                /\ stacked[j].STATE = stacked[i].STATE
                /\ stacked[j].AREALAND # stacked[i].AREALAND ) =>
                  /\ \E d \in 1..Q : stacked[i].DECILE = { d }
                  /\ \A j \in 1..Len(stacked) :
                        ( stacked[j].STATE = stacked[i].STATE
                          /\ stacked[j].AREALAND < stacked[i].AREALAND ) =>
                            \A di \in stacked[i].DECILE, dj \in stacked[j].DECILE : dj <= di

(* C6. Sentinel cleanup (under SpecSentinel): after line 102 every row     *)
(* whose income was exactly -666666666 holds the missing value, and every  *)
(* other income and every other column of every row is as to_gpd gave it.  *)
C6_SentinelCleanup ==
    opc = "cleaned" =>
        /\ Len(gdf) = Len(response)
        /\ \A i \in 1..Len(gdf) :
              /\ response[i].B19013_001E = { Sentinel } => gdf[i].B19013_001E = {}
              /\ response[i].B19013_001E # { Sentinel } =>
                    gdf[i].B19013_001E = response[i].B19013_001E
              /\ gdf[i].B19013_001M = response[i].B19013_001M
              /\ gdf[i].GEO_ID = response[i].GEO_ID

C6_Witness ==
    /\ opc = "cleaned"
    /\ \E i, j \in 1..Len(gdf) :
          /\ response[i].B19013_001E = { Sentinel }
          /\ gdf[i].B19013_001E = {}
          /\ gdf[i].B19013_001M = { Sentinel }
          /\ response[j].B19013_001E = { Sentinel - 1 }
          /\ gdf[j].B19013_001E = { Sentinel - 1 }

\* The index labels of the rows of stacked inside the extent read at lines
\* 133-134 with a DECILE of at least 19.
Expected ==
    { i - 1 : i \in { k \in 1..Len(stacked) :
        /\ extent[1] <= stacked[k].CENTLON /\ stacked[k].CENTLON <= extent[2]
        /\ extent[3] <= stacked[k].CENTLAT /\ stacked[k].CENTLAT <= extent[4]
        /\ stacked[k].DECILE \in { { DecileThreshold }, { DecileThreshold + 1 } } } }

(* C4. Centroid filtering (under SpecRender): the rows drawn as markers    *)
(* and as labels are exactly the rows of the feature table whose centroid  *)
(* lies within the extent read after the choropleth was drawn (bounds      *)
(* included) and whose DECILE is at least 19, each drawn once, at its own  *)
(* coordinates.                                                            *)
C4_CentroidFiltering ==
    opc = "labelled" =>
        /\ extent = axlim
        /\ { markers[k].idx : k \in 1..Len(markers) } = Expected
        /\ { labels[k].idx : k \in 1..Len(labels) } = Expected
        /\ Len(markers) = Cardinality(Expected)
        /\ Len(labels) = Cardinality(Expected)
        /\ \A k \in 1..Len(markers) :
              /\ markers[k].x = stacked[markers[k].idx + 1].CENTLON
              /\ markers[k].y = stacked[markers[k].idx + 1].CENTLAT
        /\ \A k \in 1..Len(labels) :
              /\ labels[k].x = stacked[labels[k].idx + 1].CENTLON
              /\ labels[k].y = stacked[labels[k].idx + 1].CENTLAT + YOffset
              /\ labels[k].s = stacked[labels[k].idx + 1].NAME

C4_Witness ==
    /\ opc = "labelled"
    /\ Len(stacked) = 2
    /\ stacked[1].DECILE = { 18 }
    /\ stacked[2].DECILE = { 20 }
    /\ \A i \in 1..2 : Visible(WithDecile(stacked[i], { 20 }), extent)
    /\ stacked[2].CENTLON = extent[1]
    /\ Len(labels) = 1
    /\ labels[1].idx = 1

====
